---------------------------- MODULE Spec2Model ----------------------------
(***************************************************************************)
(* A model of backend/main.py: the content item table (SQLite through an   *)
(* SQLAlchemy session per request), the uploads directory, and the HTTP    *)
(* handlers that work on them.                                             *)
(*                                                                         *)
(* Python values: None is the empty tuple and a present optional value x   *)
(* is <<x>>.  A string that the code only stores is a TLA+ string; a       *)
(* string the code takes apart (event_date, a file name, a content type)   *)
(* is a tuple or record of its parts.                                      *)
(***************************************************************************)
EXTENDS Integers, Sequences, FiniteSets, TLC

VARIABLES
    db,         \* content_items: id -> row (the committed table)
    blobs,      \* the files in UPLOAD_DIR, by name <<uuid, extension>>
    clock,      \* the last value datetime.utcnow() returned
    nextUuid,   \* uuid.uuid4(): the next fresh value
    calls,      \* number of requests handled so far
    req,        \* the request last handled
    resp,       \* its response
    deleted,    \* history: ids whose DELETE succeeded
    upd,        \* concurrent PUT requests: process -> its handler's locals
    commits     \* history: the order in which concurrent PUTs committed

vars == <<db, blobs, clock, nextUuid, calls, req, resp, deleted, upd, commits>>

(***************************************************************************)
(* Bounds of the model.                                                    *)
(***************************************************************************)
MaxCalls == 3
MaxClock == 1

None == <<>>
Some(x) == <<x>>
Get(o) == o[1]

(***************************************************************************)
(* Request inputs.                                                         *)
(***************************************************************************)
DefaultLimit == 20

ValidCategories == {"blogs", "events", "news"}

EmptyFilename == [stem |-> "", ext |-> ""]
PngUpload == [filename |-> [stem |-> "pic", ext |-> ".png"], content_type |-> <<"image", "png">>]
PdfUpload == [filename |-> [stem |-> "doc", ext |-> ".pdf"], content_type |-> <<"application", "pdf">>]
NamelessUpload == [filename |-> EmptyFilename, content_type |-> <<"application", "octet-stream">>]

IsoDateZ == <<"2024-05-01", "T10:00:00", "Z">>
NotADate == <<"not-a-date">>
EmptyString == <<>>

\* The outcomes of save_upload_file: the copy succeeds, open() raises before the
\* file exists, or copyfileobj raises after open() created the file.
SaveOutcomes == {"ok", "open_error", "copy_error"}


(***************************************************************************)
(* Blob store: save_upload_file and the unlink of an item's image.         *)
(***************************************************************************)
\* os.path.splitext(upload_file.filename)[1]
Splitext(filename) == filename.ext

\* f"{uuid.uuid4()}{file_extension}"
FileName(uuid, upload) == <<uuid, Splitext(upload.filename)>>

\* f"/uploads/{file_name}"
UploadUrl(file_name) == <<"/uploads", file_name[1], file_name[2]>>

\* os.path.basename(image_url)
Basename(url) == <<url[2], url[3]>>

\* save_upload_file: the directory afterwards, whether it raised, the url returned
save_upload_file(files, uuid, upload, outcome) ==
    [ files  |-> IF outcome = "open_error" THEN files
                 ELSE files \cup {FileName(uuid, upload)},
      raised |-> outcome # "ok",
      url    |-> UploadUrl(FileName(uuid, upload)) ]

\* Path.exists() of the file an image_url names
BlobExists(files, image_url) == Basename(Get(image_url)) \in files

\* (mutation of Unlink: the file is left in place)
UnlinkSkipped(files, name) == files

\* Path.unlink()
Unlink(files, name) == files \ {name}

\* if image_url: path = UPLOAD_DIR / basename(image_url); if path.exists(): path.unlink()
RemoveImage(files, image_url) ==
    IF image_url # None /\ BlobExists(files, image_url)
    THEN Unlink(files, Basename(Get(image_url)))
    ELSE files

\* image.content_type.startswith("image/")
IsImageType(content_type) == content_type[1] = "image"

\* `image and image.filename`
HasUpload(image) == image # None /\ Get(image).filename # EmptyFilename

(***************************************************************************)
(* event_date: datetime.fromisoformat(event_date.replace('Z', '+00:00'))   *)
(* and what the DateTime column keeps of it.                               *)
(***************************************************************************)
ReplaceZ(s) == [i \in 1..Len(s) |-> IF s[i] = "Z" THEN "+00:00" ELSE s[i]]

IsDate(tok) == tok \in {"2024-05-01"}
IsTime(tok) == tok \in {"T10:00:00"}
IsOffset(tok) == tok \in {"+00:00"}

DateTime(date, time, tz) == [date |-> date, time |-> time, tz |-> tz]

\* ok = FALSE is the ValueError
fromisoformat(s) ==
    IF Len(s) = 1 /\ IsDate(s[1])
    THEN [ok |-> TRUE, value |-> DateTime(s[1], "T00:00:00", None)]
    ELSE IF Len(s) = 2 /\ IsDate(s[1]) /\ IsTime(s[2])
    THEN [ok |-> TRUE, value |-> DateTime(s[1], s[2], None)]
    ELSE IF Len(s) = 3 /\ IsDate(s[1]) /\ IsTime(s[2]) /\ IsOffset(s[3])
    THEN [ok |-> TRUE, value |-> DateTime(s[1], s[2], Some(s[3]))]
    ELSE [ok |-> FALSE, value |-> DateTime("", "", None)]

ParseEventDate(s) == fromisoformat(ReplaceZ(s))

\* The SQLite DateTime column stores no offset: the row read back is naive.
StoreDateTime(dt) == DateTime(dt.date, dt.time, None)

(***************************************************************************)
(* The table.                                                              *)
(***************************************************************************)
Ids(table) == DOMAIN table

SetMax(S) == CHOOSE m \in S : \A x \in S : x <= m

\* id is INTEGER PRIMARY KEY on SQLite (no AUTOINCREMENT): the rowid of a new
\* row is one more than the largest rowid in the table.
NextId(table) == IF Ids(table) = {} THEN 1 ELSE SetMax(Ids(table)) + 1

\* db.add(db_item); db.commit()
Insert(table, row) ==
    [i \in Ids(table) \cup {row.id} |-> IF i = row.id THEN row ELSE table[i]]

\* db.delete(db_item); db.commit()
DeleteRow(table, id) == [i \in Ids(table) \ {id} |-> table[i]]

\* db.commit() of a modified row: the UPDATE sets the columns whose value in the
\* session differs from the value the session loaded, and no others.
CommitRow(persisted, loaded, session) ==
    [ id         |-> persisted.id,
      title      |-> IF session.title # loaded.title THEN session.title ELSE persisted.title,
      content    |-> IF session.content # loaded.content THEN session.content ELSE persisted.content,
      excerpt    |-> IF session.excerpt # loaded.excerpt THEN session.excerpt ELSE persisted.excerpt,
      category   |-> persisted.category,
      image_url  |-> IF session.image_url # loaded.image_url THEN session.image_url ELSE persisted.image_url,
      author     |-> IF session.author # loaded.author THEN session.author ELSE persisted.author,
      published  |-> IF session.published # loaded.published THEN session.published ELSE persisted.published,
      created_at |-> persisted.created_at,
      updated_at |-> IF session.updated_at # loaded.updated_at THEN session.updated_at ELSE persisted.updated_at,
      event_date |-> IF session.event_date # loaded.event_date
                     THEN Some(StoreDateTime(Get(session.event_date)))
                     ELSE persisted.event_date,
      tags       |-> IF session.tags # loaded.tags THEN session.tags ELSE persisted.tags ]

\* (mutation of SessionClose: the pending changes are written on close)
SessionCloseFlushes(persisted, pending) == pending

\* get_db: db.close() in the finally discards whatever the handler did not commit
SessionClose(persisted, pending) == persisted

(***************************************************************************)
(* Request values.                                                         *)
(***************************************************************************)
\* The optional form fields of a request, and those a request supplies
CreateFields == {"excerpt", "published", "event_date", "tags", "image"}
UpdateFields == {"title", "content", "excerpt", "author", "published", "event_date", "tags", "image"}

Supplied(r, fields) == {f \in fields : r[f] # None}

\* Requests that supply none of the optional fields, one of them, or all
NoneOneOrAll(r, fields) ==
    Cardinality(Supplied(r, fields)) \in {0, 1, Cardinality(fields)}

EventDates == {None, Some(EmptyString), Some(IsoDateZ), Some(NotADate)}

CreateRequests ==
    {r \in [ op : {"create"},
             title : {"t"}, content : {"t"}, author : {"t"},
             category : {"blogs", "news", "blog"},
             excerpt : {None, Some("e")},
             published : {None, Some(TRUE)},
             event_date : EventDates,
             tags : {None, Some("x")},
             image : {None, Some(PngUpload), Some(PdfUpload)} ] :
        NoneOneOrAll(r, CreateFields)}

\* item_id is filled in from the path of the request
UpdateForms ==
    {r \in [ op : {"update"}, item_id : {0},
             title : {None, Some("")}, content : {None, Some("u")},
             excerpt : {None, Some("")}, author : {None, Some("u")},
             published : {None, Some(TRUE)},
             event_date : EventDates,
             tags : {None, Some("")},
             image : {None, Some(NamelessUpload), Some(PngUpload), Some(PdfUpload)} ] :
        NoneOneOrAll(r, UpdateFields)}

ListRequests ==
    [ op : {"list"},
      category : {None, Some(""), Some("blogs")},
      published : {None, Some(TRUE), Some(FALSE)},
      limit : {1, DefaultLimit},
      offset : {0, 1} ]

(***************************************************************************)
(* Responses.                                                              *)
(***************************************************************************)
Ok(body) == [status |-> 200, body |-> body]
Error(status, detail) == [status |-> status, detail |-> detail]

(***************************************************************************)
(* POST /api/content                                                       *)
(***************************************************************************)
NewRow(r, image_url, event_date) ==
    [ id         |-> 0,
      title      |-> r.title,
      content    |-> r.content,
      excerpt    |-> r.excerpt,
      category   |-> r.category,
      image_url  |-> image_url,
      author     |-> r.author,
      published  |-> IF r.published = None THEN FALSE ELSE Get(r.published),
      created_at |-> 0,
      updated_at |-> 0,
      event_date |-> event_date,
      tags       |-> r.tags ]

\* The INSERT: the id, and the two column defaults (created_at and updated_at
\* each call datetime.utcnow for themselves: t1, then t2).
Inserted(table, row, t1, t2) ==
    [row EXCEPT !.id = NextId(table), !.created_at = t1, !.updated_at = t2,
                !.event_date = IF @ = None THEN None ELSE Some(StoreDateTime(Get(@)))]

create_content(r, outcome, t1, t2) ==
    /\ calls' = calls + 1
    /\ req' = r
    /\ UNCHANGED <<deleted, upd, commits>>
    /\ IF r.category \notin ValidCategories
       THEN /\ resp' = Error(400, "Category must be one of")
            /\ UNCHANGED <<db, blobs, clock, nextUuid>>
       ELSE IF HasUpload(r.image) /\ ~IsImageType(Get(r.image).content_type)
       THEN /\ resp' = Error(400, "File must be an image")
            /\ UNCHANGED <<db, blobs, clock, nextUuid>>
       ELSE LET saved == save_upload_file(blobs, nextUuid, Get(r.image), outcome)
                files == IF HasUpload(r.image) THEN saved.files ELSE blobs
                image_url == IF HasUpload(r.image) THEN Some(saved.url) ELSE None
                parse == \* `if event_date:` an empty string is not parsed
                    IF r.event_date # None /\ Get(r.event_date) # EmptyString
                    THEN ParseEventDate(Get(r.event_date))
                    ELSE [ok |-> TRUE]
                event_date ==
                    IF r.event_date # None /\ Get(r.event_date) # EmptyString
                    THEN Some(parse.value) ELSE None
                row == Inserted(db, NewRow(r, image_url, event_date), t1, t2)
            IN  /\ blobs' = files
                /\ nextUuid' = IF HasUpload(r.image) THEN nextUuid + 1 ELSE nextUuid
                /\ IF HasUpload(r.image) /\ saved.raised
                   THEN /\ resp' = Error(500, "Internal Server Error")
                        /\ UNCHANGED <<db, clock>>
                   ELSE IF ~parse.ok
                   THEN /\ resp' = Error(400, "Invalid event_date format")
                        /\ UNCHANGED <<db, clock>>
                   ELSE /\ db' = Insert(db, row)
                        /\ clock' = t2
                        /\ resp' = Ok(row)

(***************************************************************************)
(* PUT /api/content/{item_id}                                              *)
(***************************************************************************)
\* (mutation of ApplyFields: excerpt and tags are assigned without the
\* `is not None` test, so an absent parameter clears the field)
ApplyFieldsUnguarded(row, r) ==
    [row EXCEPT !.title     = IF r.title # None THEN Get(r.title) ELSE @,
                !.content   = IF r.content # None THEN Get(r.content) ELSE @,
                !.excerpt   = r.excerpt,
                !.author    = IF r.author # None THEN Get(r.author) ELSE @,
                !.published = IF r.published # None THEN Get(r.published) ELSE @,
                !.tags      = r.tags]

\* "Update fields if provided": title, content, excerpt, author, published, tags
ApplyFields(row, r) ==
    [row EXCEPT !.title     = IF r.title # None THEN Get(r.title) ELSE @,
                !.content   = IF r.content # None THEN Get(r.content) ELSE @,
                !.excerpt   = IF r.excerpt # None THEN r.excerpt ELSE @,
                !.author    = IF r.author # None THEN Get(r.author) ELSE @,
                !.published = IF r.published # None THEN Get(r.published) ELSE @,
                !.tags      = IF r.tags # None THEN r.tags ELSE @]

\* "Handle event_date update": the parse, and the row with the parsed value
UpdateParse(r) ==
    IF r.event_date # None THEN ParseEventDate(Get(r.event_date))
    ELSE [ok |-> TRUE, value |-> DateTime("", "", None)]

ApplyEventDate(row, r) ==
    IF r.event_date # None
    THEN [row EXCEPT !.event_date = Some(UpdateParse(r).value)]
    ELSE row

\* The table once the session's row is flushed and committed
Flush(table, loaded, session) ==
    [table EXCEPT ![loaded.id] = CommitRow(table[loaded.id], loaded, session)]

update_content(r, outcome, t) ==
    /\ calls' = calls + 1
    /\ req' = r
    /\ UNCHANGED <<deleted, upd, commits>>
    /\ IF r.item_id \notin Ids(db)
       THEN /\ resp' = Error(404, "Content item not found")
            /\ UNCHANGED <<db, blobs, clock, nextUuid>>
       ELSE LET loaded == db[r.item_id]
                edited == ApplyFields(loaded, r)
                dated == ApplyEventDate(edited, r)
                has == HasUpload(r.image)
                removed == RemoveImage(blobs, dated.image_url)
                saved == save_upload_file(removed, nextUuid, Get(r.image), outcome)
                imaged == IF has THEN [dated EXCEPT !.image_url = Some(saved.url)] ELSE dated
                stamped == [imaged EXCEPT !.updated_at = t]
            IN  IF ~UpdateParse(r).ok
                THEN /\ resp' = Error(400, "Invalid event_date format")
                     /\ db' = SessionClose(db, Flush(db, loaded, edited))
                     /\ UNCHANGED <<blobs, clock, nextUuid>>
                ELSE IF has /\ ~IsImageType(Get(r.image).content_type)
                THEN /\ resp' = Error(400, "File must be an image")
                     /\ db' = SessionClose(db, Flush(db, loaded, dated))
                     /\ UNCHANGED <<blobs, clock, nextUuid>>
                ELSE IF has /\ saved.raised
                THEN /\ resp' = Error(500, "Internal Server Error")
                     /\ db' = SessionClose(db, Flush(db, loaded, dated))
                     /\ blobs' = saved.files
                     /\ nextUuid' = nextUuid + 1
                     /\ UNCHANGED clock
                ELSE /\ db' = Flush(db, loaded, stamped)
                     /\ blobs' = IF has THEN saved.files ELSE blobs
                     /\ nextUuid' = IF has THEN nextUuid + 1 ELSE nextUuid
                     /\ clock' = t
                     /\ resp' = Ok(db'[r.item_id])

(***************************************************************************)
(* DELETE /api/content/{item_id}                                           *)
(***************************************************************************)
delete_content(item_id) ==
    /\ calls' = calls + 1
    /\ req' = [op |-> "delete", item_id |-> item_id]
    /\ UNCHANGED <<clock, nextUuid, upd, commits>>
    /\ IF item_id \notin Ids(db)
       THEN /\ resp' = Error(404, "Content item not found")
            /\ UNCHANGED <<db, blobs, deleted>>
       ELSE /\ blobs' = RemoveImage(blobs, db[item_id].image_url)
            /\ db' = DeleteRow(db, item_id)
            /\ deleted' = deleted \cup {item_id}
            /\ resp' = Ok("Content item deleted successfully")

(***************************************************************************)
(* POST /api/upload-image                                                  *)
(***************************************************************************)
upload_image(file, outcome) ==
    /\ calls' = calls + 1
    /\ req' = [op |-> "upload", file |-> file]
    /\ UNCHANGED <<db, clock, deleted, upd, commits>>
    /\ IF ~IsImageType(file.content_type)
       THEN /\ resp' = Error(400, "File must be an image")
            /\ UNCHANGED <<blobs, nextUuid>>
       ELSE LET saved == save_upload_file(blobs, nextUuid, file, outcome)
            IN  /\ blobs' = saved.files
                /\ nextUuid' = nextUuid + 1
                /\ resp' = IF saved.raised
                           THEN Error(500, "Error uploading file")
                           ELSE Ok([image_url |-> saved.url, filename |-> file.filename])

(***************************************************************************)
(* GET /api/content/{item_id}, GET /                                       *)
(***************************************************************************)
get_content_item(item_id) ==
    /\ calls' = calls + 1
    /\ req' = [op |-> "get", item_id |-> item_id]
    /\ resp' = IF item_id \in Ids(db) THEN Ok(db[item_id])
               ELSE Error(404, "Content item not found")
    /\ UNCHANGED <<db, blobs, clock, nextUuid, deleted, upd, commits>>

read_root ==
    /\ calls' = calls + 1
    /\ req' = [op |-> "root"]
    /\ resp' = Ok("CMS API is running")
    /\ UNCHANGED <<db, blobs, clock, nextUuid, deleted, upd, commits>>

(***************************************************************************)
(* GET /api/content and the three category endpoints                       *)
(***************************************************************************)
\* `if category:` filters unless None or empty; `if published is not None:`
Matching(table, category, published) ==
    {i \in Ids(table) :
        /\ (category # None /\ Get(category) # "") => table[i].category = Get(category)
        /\ published # None => table[i].published = Get(published)}

\* ORDER BY created_at DESC: every order of the rows that is descending in
\* created_at (the query names no second key, so rows with equal created_at
\* come in whatever order the engine produces)
Orderings(table, S) ==
    {o \in [1..Cardinality(S) -> S] :
        /\ \A i, j \in 1..Cardinality(S) : i # j => o[i] # o[j]
        /\ \A i, j \in 1..Cardinality(S) :
              i < j => table[o[i]].created_at >= table[o[j]].created_at}

Min(a, b) == IF a <= b THEN a ELSE b

\* .offset(offset).limit(limit)
Slice(o, offset, limit) == SubSeq(o, offset + 1, Min(Len(o), offset + limit))

Rows(table, o) == [k \in 1..Len(o) |-> table[o[k]]]

Listed(category, published, limit, offset) ==
    /\ calls' = calls + 1
    /\ \E o \in Orderings(db, Matching(db, category, published)) :
          resp' = Ok(Rows(db, Slice(o, offset, limit)))
    /\ UNCHANGED <<db, blobs, clock, nextUuid, deleted, upd, commits>>

get_content(r) ==
    /\ req' = r
    /\ Listed(r.category, r.published, r.limit, r.offset)

get_blogs(published) ==
    /\ req' = [op |-> "blogs", published |-> published]
    /\ Listed(Some("blogs"), Some(published), DefaultLimit, 0)

get_events(published) ==
    /\ req' = [op |-> "events", published |-> published]
    /\ Listed(Some("events"), Some(published), DefaultLimit, 0)

get_news(published) ==
    /\ req' = [op |-> "news", published |-> published]
    /\ Listed(Some("news"), Some(published), DefaultLimit, 0)

(***************************************************************************)
(* The server handling one request at a time.                              *)
(***************************************************************************)
\* The ids a request may name: those in the table, the gaps deletes left
\* between them, and the one after the largest
ItemIds == 1..NextId(db)

Outcomes(image) ==
    IF HasUpload(image) /\ IsImageType(Get(image).content_type)
    THEN SaveOutcomes ELSE {"ok"}

Init ==
    /\ db = <<>>
    /\ blobs = {}
    /\ clock = 0
    /\ nextUuid = 1
    /\ calls = 0
    /\ req = [op |-> "none"]
    /\ resp = Ok("")
    /\ deleted = {}
    /\ upd = <<>>
    /\ commits = <<>>

\* The model stops taking requests after MaxCalls of them.  A value t that
\* datetime.utcnow() returns is drawn from clock..MaxClock: the clock does not
\* run backwards.
Accepting == calls < MaxCalls

Next ==
    \/ /\ Accepting
       /\ \E r \in CreateRequests, t1 \in clock..MaxClock :
             \E outcome \in Outcomes(r.image), t2 \in t1..MaxClock :
                create_content(r, outcome, t1, t2)
    \/ /\ Accepting
       /\ \E item_id \in ItemIds, f \in UpdateForms, t \in clock..MaxClock :
             \E outcome \in Outcomes(f.image) :
                update_content([f EXCEPT !.item_id = item_id], outcome, t)
    \/ /\ Accepting
       /\ \E item_id \in ItemIds : delete_content(item_id)
    \/ /\ Accepting
       /\ \E file \in {PngUpload, PdfUpload} :
             \E outcome \in Outcomes(Some(file)) : upload_image(file, outcome)
    \/ /\ Accepting
       /\ \E item_id \in ItemIds : get_content_item(item_id)
    \/ /\ Accepting
       /\ \E r \in ListRequests : get_content(r)
    \/ /\ Accepting
       /\ \E published \in BOOLEAN : get_blogs(published)
    \/ /\ Accepting
       /\ \E published \in BOOLEAN : get_events(published)
    \/ /\ Accepting
       /\ \E published \in BOOLEAN : get_news(published)
    \/ /\ Accepting
       /\ read_root

Spec == Init /\ [][Next]_vars

(***************************************************************************)
(* Two PUT requests for the same item handled at the same time, each in    *)
(* its own thread with its own session.  A handler's steps are the places  *)
(* where it touches the table or the uploads directory.                    *)
(***************************************************************************)
Procs == {1, 2}

\* The item both requests update: created with an image by this request
FirstRequest ==
    [ op |-> "create", title |-> "t", content |-> "t", author |-> "t",
      category |-> "news", excerpt |-> None, published |-> None,
      event_date |-> None, tags |-> None, image |-> Some(PngUpload) ]

FirstRow ==
    Inserted(<<>>, NewRow(FirstRequest, Some(UploadUrl(FileName(1, PngUpload))), None), 0, 0)

ConcurrentForms ==
    [ op : {"update"}, item_id : {FirstRow.id},
      title : {None, Some("t"), Some("")}, content : {None},
      excerpt : {None}, author : {None}, published : {None, Some(TRUE)},
      event_date : {None}, tags : {None},
      image : {None, Some(PngUpload)} ]

InitConc ==
    /\ db = Insert(<<>>, FirstRow)
    /\ blobs = save_upload_file({}, 1, PngUpload, "ok").files
    /\ clock = 0
    /\ nextUuid = 2
    /\ calls = 1
    /\ req = FirstRequest
    /\ resp = Ok(FirstRow)
    /\ deleted = {}
    /\ upd = [p \in Procs |-> [pc |-> "start"]]
    /\ commits = <<>>

Goto(p, pc) == upd' = [upd EXCEPT ![p].pc = pc]

\* db.query(ContentItem).filter(ContentItem.id == item_id).first(), then the
\* assignments to the loaded object, which stay in the session
ReadRow(p, r) ==
    /\ upd[p].pc = "start"
    /\ r.item_id \in Ids(db)
    /\ LET loaded == db[r.item_id]
           session == ApplyEventDate(ApplyFields(loaded, r), r)
           pc == IF ~UpdateParse(r).ok THEN "failed"
                 ELSE IF ~HasUpload(r.image) THEN "commit"
                 ELSE IF ~IsImageType(Get(r.image).content_type) THEN "failed"
                 ELSE IF session.image_url # None THEN "exists"
                 ELSE "save"
       IN  upd' = [upd EXCEPT ![p] = [pc |-> pc, r |-> r, loaded |-> loaded, session |-> session]]
    /\ UNCHANGED <<db, blobs, clock, nextUuid, calls, req, resp, deleted, commits>>

\* old_file_path.exists()
CheckExists(p) ==
    /\ upd[p].pc = "exists"
    /\ Goto(p, IF BlobExists(blobs, upd[p].session.image_url) THEN "unlink" ELSE "save")
    /\ UNCHANGED <<db, blobs, clock, nextUuid, calls, req, resp, deleted, commits>>

\* old_file_path.unlink(): FileNotFoundError if the file went since the check
UnlinkOld(p) ==
    /\ upd[p].pc = "unlink"
    /\ IF BlobExists(blobs, upd[p].session.image_url)
       THEN /\ blobs' = Unlink(blobs, Basename(Get(upd[p].session.image_url)))
            /\ Goto(p, "save")
       ELSE /\ Goto(p, "failed")
            /\ UNCHANGED blobs
    /\ UNCHANGED <<db, clock, nextUuid, calls, req, resp, deleted, commits>>

\* db_item.image_url = save_upload_file(image)
SaveNew(p, outcome) ==
    /\ upd[p].pc = "save"
    /\ LET saved == save_upload_file(blobs, nextUuid, Get(upd[p].r.image), outcome)
       IN  /\ blobs' = saved.files
           /\ nextUuid' = nextUuid + 1
           /\ upd' = IF saved.raised
                     THEN [upd EXCEPT ![p].pc = "failed"]
                     ELSE [upd EXCEPT ![p].pc = "commit",
                                      ![p].session.image_url = Some(saved.url)]
    /\ UNCHANGED <<db, clock, calls, req, resp, deleted, commits>>

\* db_item.updated_at = datetime.utcnow(); db.commit()
Commit(p, t) ==
    /\ upd[p].pc = "commit"
    /\ upd[p].loaded.id \in Ids(db)
    /\ db' = Flush(db, upd[p].loaded, [upd[p].session EXCEPT !.updated_at = t])
    /\ clock' = t
    /\ commits' = Append(commits, p)
    /\ Goto(p, "done")
    /\ UNCHANGED <<blobs, nextUuid, calls, req, resp, deleted>>

NextConc ==
    \/ \E p \in Procs, r \in ConcurrentForms : ReadRow(p, r)
    \/ \E p \in Procs : CheckExists(p)
    \/ \E p \in Procs : UnlinkOld(p)
    \/ \E p \in Procs, outcome \in SaveOutcomes : SaveNew(p, outcome)
    \/ \E p \in Procs, t \in clock..MaxClock : Commit(p, t)

SpecConc == InitConc /\ [][NextConc]_vars

(***************************************************************************)
(* Properties of the server handling one request at a time.                *)
(***************************************************************************)
Failed == resp'.status # 200

\* C1: a create, update or delete call that ends in an error leaves the table
\* and the uploads directory exactly as they were before the call.
C1_FailedCallPersistsNothing ==
    [][(req'.op \in {"create", "update", "delete"} /\ Failed)
          => (db' = db /\ blobs' = blobs)]_vars

\* event_date is supplied and does not parse
BadEventDate(r) == r.event_date # None /\ ~ParseEventDate(Get(r.event_date)).ok

\* C2: an update of an existing item with an unparsable event_date answers 400
\* and leaves every stored row as it was (updated_at included), whatever else
\* the request supplies.
C2_BadEventDateChangesNothing ==
    [][(req'.op = "update" /\ req'.item_id \in Ids(db) /\ BadEventDate(req'))
          => (resp'.status = 400 /\ db' = db)]_vars

C2_Witness ==
    /\ req.op = "update"
    /\ req.item_id \in Ids(db)
    /\ BadEventDate(req)
    /\ Supplied(req, UpdateFields) = UpdateFields
    /\ HasUpload(req.image)
    /\ resp.status = 400

\* C3: a successful update sets each supplied field to the supplied value (an
\* empty string included), sets updated_at to the current time, keeps every
\* field whose parameter is absent, never touches id, category or created_at,
\* and leaves every other row unchanged.
C3_UpdateChangesSuppliedFieldsOnly ==
    [][(req'.op = "update" /\ resp'.status = 200) =>
          LET r == req'
              old == db[r.item_id]
              new == db'[r.item_id]
          IN  /\ Ids(db') = Ids(db)
              /\ \A j \in Ids(db) \ {r.item_id} : db'[j] = db[j]
              /\ new.id = old.id
              /\ new.category = old.category
              /\ new.created_at = old.created_at
              /\ new.title = IF r.title = None THEN old.title ELSE Get(r.title)
              /\ new.content = IF r.content = None THEN old.content ELSE Get(r.content)
              /\ new.excerpt = IF r.excerpt = None THEN old.excerpt ELSE r.excerpt
              /\ new.author = IF r.author = None THEN old.author ELSE Get(r.author)
              /\ new.published = IF r.published = None THEN old.published ELSE Get(r.published)
              /\ new.tags = IF r.tags = None THEN old.tags ELSE r.tags
              /\ r.event_date = None => new.event_date = old.event_date
              /\ r.event_date # None =>
                    new.event_date = Some(StoreDateTime(ParseEventDate(Get(r.event_date)).value))
              /\ ~HasUpload(r.image) => new.image_url = old.image_url
              /\ HasUpload(r.image) =>
                    /\ new.image_url # None
                    /\ new.image_url # old.image_url
                    /\ BlobExists(blobs', new.image_url)
                    /\ ~BlobExists(blobs, new.image_url)
              /\ new.updated_at = clock'
              /\ resp'.body = new]_vars

C3_Witness ==
    /\ req.op = "update"
    /\ resp.status = 200
    /\ Supplied(req, UpdateFields) = UpdateFields
    /\ db[req.item_id].title = ""
    /\ db[req.item_id].excerpt = Some("")
    /\ Cardinality(Ids(db)) = 2

\* C4: a successful delete of an item with an image removes the row and the
\* blob its image_url names, and removes no other row and no blob that another
\* row refers to.
C4_DeleteRemovesRowAndBlob ==
    [][(req'.op = "delete" /\ resp'.status = 200 /\ db[req'.item_id].image_url # None) =>
          LET id == req'.item_id
          IN  /\ id \notin Ids(db')
              /\ ~BlobExists(blobs', db[id].image_url)
              /\ Ids(db') = Ids(db) \ {id}
              /\ \A j \in Ids(db') :
                    /\ db'[j] = db[j]
                    /\ (db[j].image_url # None /\ BlobExists(blobs, db[j].image_url))
                          => BlobExists(blobs', db[j].image_url)]_vars

C4_Witness ==
    /\ req.op = "delete"
    /\ resp.status = 200
    /\ nextUuid = 3
    /\ Cardinality(blobs) = 1
    /\ \E j \in Ids(db) : db[j].image_url # None /\ BlobExists(blobs, db[j].image_url)

\* C5: once delete(id) has succeeded every later get, update or delete of that
\* id answers 404, and a create never assigns an id that an earlier item had.
C5_DeletedIdsStayGone ==
    [][/\ (req'.op \in {"get", "update", "delete"} /\ req'.item_id \in deleted)
             => resp'.status = 404
       /\ (req'.op = "create" /\ resp'.status = 200)
             => resp'.body.id \notin deleted \cup Ids(db)]_vars

IsListing(op) == op \in {"list", "blogs", "events", "news"}

\* C6: a listing is in descending created_at order, and of two items in it the
\* one created later comes first, also when their created_at are equal.  (An
\* item created later has the larger id: a new id exceeds every id in the table.)
C6_NewestFirst ==
    IsListing(req.op) =>
        \A i, j \in 1..Len(resp.body) :
            i < j => /\ resp.body[i].created_at >= resp.body[j].created_at
                     /\ resp.body[i].id > resp.body[j].id

\* the rows a listing must return by the exact-match reading of its filters
ExactMatching(table, category, published) ==
    {i \in Ids(table) :
        /\ category # None => table[i].category = Get(category)
        /\ published # None => table[i].published = Get(published)}

\* C7: every given category (any string) and every given published value is
\* applied as an exact match, and the result is the slice [offset, offset+limit)
\* of the matching rows in list order.
C7_FiltersAreExact ==
    req.op = "list" =>
        /\ resp.status = 200
        /\ \E o \in Orderings(db, ExactMatching(db, req.category, req.published)) :
              resp.body = Rows(db, Slice(o, req.offset, req.limit))
        /\ \A k \in 1..Len(resp.body) :
              /\ req.category # None => resp.body[k].category = Get(req.category)
              /\ req.published # None => resp.body[k].published = Get(req.published)

\* C8: a successful create without image and without published returns a row
\* with a new id, published false, no image_url and created_at = updated_at,
\* and that row is what the table holds under the id.
C8_CreateDefaults ==
    [][(req'.op = "create" /\ resp'.status = 200
            /\ req'.image = None /\ req'.published = None) =>
          /\ resp'.body.id \notin Ids(db)
          /\ resp'.body.id \in Ids(db')
          /\ db'[resp'.body.id] = resp'.body
          /\ resp'.body.published = FALSE
          /\ resp'.body.image_url = None
          /\ resp'.body.created_at = resp'.body.updated_at]_vars

\* C9: every row with an image_url refers to a blob in the uploads directory.
C9_ImageUrlsResolve ==
    \A i \in Ids(db) : db[i].image_url # None => BlobExists(blobs, db[i].image_url)

(***************************************************************************)
(* Properties of two concurrent updates.                                   *)
(***************************************************************************)
\* C10: after both updates committed, every field that both supplied holds the
\* value of the one that committed last, the two blob writes used different
\* names, and the item's image_url refers to a blob that exists.
C10_LastWriterWins ==
    Len(commits) = 2 =>
        LET last == upd[commits[2]]
            first == upd[commits[1]]
            row == db[last.r.item_id]
        IN  /\ (last.r.title # None /\ first.r.title # None)
                  => row.title = Get(last.r.title)
            /\ (last.r.published # None /\ first.r.published # None)
                  => row.published = Get(last.r.published)
            /\ (HasUpload(last.r.image) /\ HasUpload(first.r.image))
                  => /\ row.image_url = last.session.image_url
                     /\ last.session.image_url # first.session.image_url
            /\ row.image_url # None => BlobExists(blobs, row.image_url)

=============================================================================
